---- MODULE Spec2Model ----
(***************************************************************************)
(* Model of fon.ts: the converter of the bitmap fonts of a .fon container  *)
(* into one PNG atlas and one JSON index per font variant.                 *)
(*                                                                         *)
(*  - Spec        the main run over a container with several variants      *)
(*  - SpecAtlas   the same run over one variant of many shapes             *)
(*  - SpecFilter  the scanline filter of the PNG writer over small canvases*)
(***************************************************************************)
EXTENDS Integers, Sequences, FiniteSets, TLC

VARIABLES
    input,           \* the input file: its variants, their order in it, the bytes missing at its end
    font_resources,  \* the byte offsets found by extract_font_resources
    pc,              \* where main is
    i,               \* the loop index of main, 1-based
    font_data,       \* the FontData of the variant in flight
    atlas,           \* the locals of create_atlas: size, cols, pixel_data, atlas_map
    files,           \* the file system: file name -> content
    log,             \* the lines written to the console, in order
    exit_status,     \* the exit status of the process, Running until it ends
    rejected,        \* the variants whose png.write() promise was rejected
    result,          \* history: how the processing of each variant ended
    parsed,          \* history: the FontData parsed for each variant
    written,         \* history: the files each variant wrote, as <<variant, "png" or "json">>
    fdata,           \* filter(): data, the canvas bytes
    fwidth,          \* filter(): width
    fheight,         \* filter(): height
    fy,              \* filter(): y, the next scanline
    raw,             \* filter(): the rows written so far, tag first
    selected_filter, \* filter(): selected_filter, declared outside the row loop
    directory,       \* the container read by extract_font_resources: its resource directory, the bytes missing at its end
    scan_offset,     \* extract_font_resources(): offset
    alignment_shift  \* extract_font_resources(): alignment_shift

runVars == <<input, font_resources, pc, i, font_data, atlas, files, log, exit_status, rejected, result, parsed, written>>

filterVars == <<fdata, fwidth, fheight, fy, raw, selected_filter>>

locVars == <<directory, scan_offset, alignment_shift>>

vars == <<runVars, filterVars, locVars>>

(***************************************************************************)
(* Bounds of the model.                                                    *)
(***************************************************************************)
\* the most variants one container of Spec holds
MaxVariants == 2

\* the most glyph records one variant of SpecAtlas holds
MaxGlyphs == 3

\* the largest pixel height of a variant of SpecAtlas
MaxHeight == 2

\* the largest canvas of SpecFilter is MaxSide x MaxSide pixels
MaxSide == 2

\* the most resource-type blocks one directory of SpecLocator holds
MaxBlocks == 2

\* the most entries one resource-type block of SpecLocator holds
MaxEntries == 2

(***************************************************************************)
(* Arithmetic of the runtime.                                              *)
(***************************************************************************)
Max(a, b) == IF a >= b THEN a ELSE b

Abs(a) == IF a < 0 THEN 0 - a ELSE a

\* Math.ceil(a / b) for a >= 0, b > 0
CeilDiv(a, b) == (a + b - 1) \div b

\* Math.ceil(Math.sqrt(n)) for n >= 0
CeilSqrt(n) == CHOOSE c \in 0..n : c * c >= n /\ (c = 0 \/ (c - 1) * (c - 1) < n)

\* Math.max(...xs) of a non-empty sequence of numbers
MaxOf(xs) == CHOOSE m \in {xs[k] : k \in 1..Len(xs)} : \A k \in 1..Len(xs) : xs[k] <= m

\* FilterValid with the test c.width >= 0, which keeps the glyphs of width 0
RECURSIVE FilterValid_nonneg(_)
FilterValid_nonneg(tbl) ==
    IF tbl = <<>> THEN <<>>
    ELSE IF Head(tbl).width >= 0 THEN <<Head(tbl)>> \o FilterValid_nonneg(Tail(tbl))
    ELSE FilterValid_nonneg(Tail(tbl))

\* array.filter(pred), here for c => c.width > 0
RECURSIVE FilterValid(_)
FilterValid(tbl) ==
    IF tbl = <<>> THEN <<>>
    ELSE IF Head(tbl).width > 0 THEN <<Head(tbl)>> \o FilterValid(Tail(tbl))
    ELSE FilterValid(Tail(tbl))

(***************************************************************************)
(* Buffer reads. The read methods of Buffer throw a RangeError when the    *)
(* bytes read are not all inside the buffer; buffer[k] outside the buffer  *)
(* is undefined and throws nothing.                                        *)
(***************************************************************************)
\* what a call that threw leaves in place of its return value
RangeError == [threw |-> TRUE]

CanRead(buf, off, n) == off >= 0 /\ off + n <= Len(buf)

readUInt8(buf, off) == buf[off + 1]

readUInt16LE(buf, off) == buf[off + 1] + 256 * buf[off + 2]

readUInt32LE(buf, off) == buf[off + 1] + 256 * buf[off + 2] + 65536 * buf[off + 3] + 16777216 * buf[off + 4]

\* header_size with the lengths of the two versions exchanged
header_size_of_swapped(version) == IF version = 512 THEN 148 ELSE IF version = 768 THEN 118 ELSE 117

\* the bytes of a header: 117 by default, 118 for version 2.0, 148 for version 3.0
header_size_of(version) == IF version = 512 THEN 118 ELSE IF version = 768 THEN 148 ELSE 117

\* parse_basic_header returns: every one of its six reads is inside the buffer
header_reads_ok(buf, offset) ==
    /\ CanRead(buf, offset + 0, 2)
    /\ CanRead(buf, offset + 88, 2)
    /\ CanRead(buf, offset + 95, 1)
    /\ CanRead(buf, offset + 96, 1)
    /\ CanRead(buf, offset + 113, 4)
    /\ CanRead(buf, offset + 68, 2)

parse_basic_header(buf, offset) ==
    [ df_version      |-> readUInt16LE(buf, offset + 0),
      df_pixel_height |-> readUInt16LE(buf, offset + 88),
      df_first_char   |-> readUInt8(buf, offset + 95),
      df_last_char    |-> readUInt8(buf, offset + 96),
      df_bits_offset  |-> readUInt32LE(buf, offset + 113),
      df_points       |-> readUInt16LE(buf, offset + 68),
      header_size     |-> header_size_of(readUInt16LE(buf, offset + 0)) ]

\* String.fromCharCode(code): the string of the one code unit
fromCharCode(code) == <<code>>

\* the for loop of parse_char_table, from index k with char_table = tbl;
\* threw tells that a read left the buffer before the loop ended
RECURSIVE char_table_loop(_, _, _, _, _)
char_table_loop(buf, header, base_offset, k, tbl) ==
    LET char_count == header.df_last_char - header.df_first_char + 1
        char_table_offset == base_offset + header.header_size
        entry_offset == char_table_offset + (k * 4)
        char_code == header.df_first_char + k
    IN  IF ~(k < char_count) THEN [threw |-> FALSE, char_table |-> tbl]
        ELSE IF ~(CanRead(buf, entry_offset, 2) /\ CanRead(buf, entry_offset + 2, 2))
        THEN [threw |-> TRUE, char_table |-> tbl]
        ELSE char_table_loop(buf, header, base_offset, k + 1,
                 Append(tbl, [ char_code |-> char_code,
                               char      |-> fromCharCode(char_code),
                               width     |-> readUInt16LE(buf, entry_offset),
                               offset    |-> readUInt16LE(buf, entry_offset + 2) ]))

\* the loop with the test i <= char_count, which reads one record more
RECURSIVE char_table_loop_le(_, _, _, _, _)
char_table_loop_le(buf, header, base_offset, k, tbl) ==
    LET char_count == header.df_last_char - header.df_first_char + 1
        entry_offset == (base_offset + header.header_size) + (k * 4)
        char_code == header.df_first_char + k
    IN  IF ~(k <= char_count) THEN [threw |-> FALSE, char_table |-> tbl]
        ELSE IF ~(CanRead(buf, entry_offset, 2) /\ CanRead(buf, entry_offset + 2, 2))
        THEN [threw |-> TRUE, char_table |-> tbl]
        ELSE char_table_loop_le(buf, header, base_offset, k + 1,
                 Append(tbl, [ char_code |-> char_code,
                               char      |-> fromCharCode(char_code),
                               width     |-> readUInt16LE(buf, entry_offset),
                               offset    |-> readUInt16LE(buf, entry_offset + 2) ]))

parse_char_table_le(buf, header, base_offset) == char_table_loop_le(buf, header, base_offset, 0, <<>>)

parse_char_table(buf, header, base_offset) == char_table_loop(buf, header, base_offset, 0, <<>>)

\* the FontData, or RangeError when the header or the glyph table threw
parse_font_data(buf, offset) ==
    IF ~header_reads_ok(buf, offset) THEN RangeError
    ELSE LET header == parse_basic_header(buf, offset)
             table == parse_char_table(buf, header, offset)
         IN  IF table.threw THEN RangeError
             ELSE [ threw |-> FALSE, header |-> header, char_table |-> table.char_table, base_offset |-> offset ]

(***************************************************************************)
(* Glyph bitmaps and the atlas.                                            *)
(***************************************************************************)
\* the number the typed array keeps of buffer[k]: the byte, or 0 for the
\* undefined that an index outside the buffer yields
index_or_zero(buf, k) == IF k >= 0 /\ k < Len(buf) THEN buf[k + 1] ELSE 0

\* the source position of byte-column byte_in_row of row `row` of a glyph
source_offset_of(base_offset, height, char_entry, row, byte_in_row) ==
    (base_offset + char_entry.offset) + (byte_in_row * height) + row

\* bitmap is the function dest_offset -> byte, dest_offset = row * bytes_per_row + byte_in_row
extract_character_bitmap(buf, base_offset, header, char_entry) ==
    LET width == char_entry.width
        height == header.df_pixel_height
        bytes_per_row == CeilDiv(width, 8)
        total_bytes == bytes_per_row * height
    IN  [ bitmap |-> [ d \in 0..(total_bytes - 1) |->
                         index_or_zero(buf, source_offset_of(base_offset, height, char_entry,
                                                             d \div bytes_per_row, d % bytes_per_row)) ],
          width  |-> width,
          height |-> height ]

\* calculate_atlas_dimensions with size = atlas_width, the height forgotten
calculate_atlas_dimensions_width(char_table, char_height) ==
    LET valid_chars == FilterValid(char_table)
        char_count == Len(valid_chars)
        max_char_width == MaxOf([k \in 1..char_count |-> valid_chars[k].width])
        cols == CeilSqrt(char_count)
        rows == CeilDiv(char_count, cols)
    IN  [ size |-> cols * max_char_width, cols |-> cols, rows |-> rows ]

calculate_atlas_dimensions(char_table, char_height) ==
    LET valid_chars == FilterValid(char_table)
        char_count == Len(valid_chars)
        max_char_width == MaxOf([k \in 1..char_count |-> valid_chars[k].width])
        cols == CeilSqrt(char_count)
        rows == CeilDiv(char_count, cols)
        atlas_width == cols * max_char_width
        atlas_height == rows * char_height
    IN  [ size |-> Max(atlas_width, atlas_height), cols |-> cols, rows |-> rows ]

\* pixel_of with bit_index = px % 8, the least significant bit leftmost
pixel_of_lsb(glyph, px, py) ==
    LET bytes_per_row == CeilDiv(glyph.width, 8)
        byte_index == py * bytes_per_row + (px \div 8)
    IN  (glyph.bitmap[byte_index] \div (2 ^ (px % 8))) % 2

\* (bitmap[byte_index] >> bit_index) & 1 for pixel (px, py) of a glyph
pixel_of(glyph, px, py) ==
    LET bytes_per_row == CeilDiv(glyph.width, 8)
        byte_index == py * bytes_per_row + (px \div 8)
        bit_index == 7 - (px % 8)
    IN  (glyph.bitmap[byte_index] \div (2 ^ bit_index)) % 2

\* the top-left pixel of the cell of the char_index-th valid glyph (from 0)
cell_x(char_index, cols, max_char_width) == (char_index % cols) * max_char_width

cell_y(char_index, cols, char_height) == (char_index \div cols) * char_height

\* the indices of pixel_data that drawing one glyph at (x, y) sets to 255;
\* an index outside the buffer is not written
glyph_writes(glyph, x, y, size) ==
    UNION { { pixel_index, pixel_index + 1, pixel_index + 2, pixel_index + 3 } \cap (0..(size * size * 4 - 1)) :
            pixel_index \in { ((y + p[2]) * size + (x + p[1])) * 4 :
                              p \in { q \in (0..(glyph.width - 1)) \X (0..(glyph.height - 1)) :
                                      pixel_of(glyph, q[1], q[2]) = 1 } } }

\* the key of a glyph in atlas_map: the quote and the backslash are escaped
atlas_key(char) == IF char = <<34>> THEN <<92, 34>> ELSE IF char = <<92>> THEN <<92, 92>> ELSE char

\* the loop of create_atlas over valid_chars, from char_index (from 0);
\* pixel_data is the set of the indices that hold 255, every other byte is 0
RECURSIVE glyph_loop(_, _, _, _, _, _, _)
glyph_loop(buf, fd, valid_chars, size, cols, char_index, acc) ==
    IF char_index >= Len(valid_chars) THEN acc
    ELSE LET char_entry == valid_chars[char_index + 1]
             char_height == fd.header.df_pixel_height
             max_char_width == MaxOf([k \in 1..Len(valid_chars) |-> valid_chars[k].width])
             x == cell_x(char_index, cols, max_char_width)
             y == cell_y(char_index, cols, char_height)
             glyph == extract_character_bitmap(buf, fd.base_offset, fd.header, char_entry)
             key == atlas_key(char_entry.char)
             entry == [ char |-> char_entry.char, char_code |-> char_entry.char_code,
                        x |-> x, y |-> y, width |-> glyph.width, height |-> glyph.height ]
         IN  glyph_loop(buf, fd, valid_chars, size, cols, char_index + 1,
                 [ pixel_data |-> acc.pixel_data \cup glyph_writes(glyph, x, y, size),
                   atlas_map  |-> [ k \in (DOMAIN acc.atlas_map) \cup {key} |->
                                      IF k = key THEN entry ELSE acc.atlas_map[k] ] ])

\* create_atlas up to the end of its glyph loop, for a variant with a valid glyph
create_atlas(buf, fd) ==
    LET valid_chars == FilterValid(fd.char_table)
        dims == calculate_atlas_dimensions(valid_chars, fd.header.df_pixel_height)
        drawn == glyph_loop(buf, fd, valid_chars, dims.size, dims.cols, 0,
                            [ pixel_data |-> {}, atlas_map |-> <<>> ])
    IN  [ size |-> dims.size, cols |-> dims.cols, char_count |-> Len(valid_chars),
          pixel_data |-> drawn.pixel_data, atlas_map |-> drawn.atlas_map ]

\* what the PNG file of a canvas encodes, and the JSON document
png_content(fd, a) == [ width |-> a.size, height |-> a.size, pixel_data |-> a.pixel_data ]

json_content(fd, a) ==
    [ point_size |-> fd.header.df_points, pixel_height |-> fd.header.df_pixel_height,
      atlas_size |-> a.size, char_count |-> a.char_count, characters |-> a.atlas_map ]

png_file(fd) == <<fd.header.df_points, "png">>

json_file(fd) == <<fd.header.df_points, "json">>

writeFileSync(fs, name, content) == [ n \in (DOMAIN fs) \cup {name} |-> IF n = name THEN content ELSE fs[n] ]

(***************************************************************************)
(* The input files of the model. A variant is written as its header, its   *)
(* glyph table and its planar bitmaps; the file is some bytes of container *)
(* followed by the variants, with `cut` bytes missing at its end.          *)
(***************************************************************************)
\* the bytes the bitmaps are filled with, in turn
BitmapBytes == <<166, 255, 58, 131, 0, 91, 128>>

\* the bytes of the container in front of the first variant
ContainerBytes == [k \in 1..16 |-> 0]

GlyphCount(d) == Max(0, d.last - d.first + 1)

BitmapLen(d, k) == CeilDiv(d.widths[k], 8) * d.height

RECURSIVE BitmapStart(_, _)
BitmapStart(d, k) ==
    IF k = 1 THEN header_size_of(d.version) + 4 * GlyphCount(d)
    ELSE BitmapStart(d, k - 1) + BitmapLen(d, k - 1)

BlockLen(d) == BitmapStart(d, GlyphCount(d) + 1)

\* byte number b (from 0) of the little-endian value v
ByteLE(v, b) == (v \div (256 ^ b)) % 256

Block(d) ==
    LET hs == header_size_of(d.version)
        n == GlyphCount(d)
    IN  [ q \in 1..BlockLen(d) |->
            LET p == q - 1
            IN  IF p >= hs + 4 * n THEN BitmapBytes[((p - (hs + 4 * n)) % Len(BitmapBytes)) + 1]
                ELSE IF p >= hs THEN
                    LET k == ((p - hs) \div 4) + 1
                        f == (p - hs) % 4
                    IN  IF f < 2 THEN ByteLE(d.widths[k], f) ELSE ByteLE(BitmapStart(d, k), f - 2)
                ELSE IF p \in {0, 1} THEN ByteLE(d.version, p)
                ELSE IF p \in {68, 69} THEN ByteLE(d.points, p - 68)
                ELSE IF p \in {88, 89} THEN ByteLE(d.height, p - 88)
                ELSE IF p = 95 THEN d.first
                ELSE IF p = 96 THEN d.last
                ELSE IF p \in 113..116 THEN ByteLE(hs + 4 * n, p - 113)
                ELSE 0 ]

\* the variants in the order they lie in the file: as listed, or reversed
Placed(ds, order) == IF order = "forward" THEN ds ELSE [k \in 1..Len(ds) |-> ds[Len(ds) + 1 - k]]

RECURSIVE Concat(_)
Concat(blocks) == IF blocks = <<>> THEN <<>> ELSE Head(blocks) \o Concat(Tail(blocks))

\* the offset of the k-th placed variant
RECURSIVE BaseOf(_, _)
BaseOf(placed, k) == IF k = 1 THEN Len(ContainerBytes) ELSE BaseOf(placed, k - 1) + BlockLen(placed[k - 1])

FileOf(ds, order, cut) ==
    LET placed == Placed(ds, order)
        whole == ContainerBytes \o Concat([k \in 1..Len(ds) |-> Block(placed[k])])
    IN  SubSeq(whole, 1, Len(whole) - cut)

\* the bytes readFileSync returns for the input file; offset o is buffer[o + 1]
buffer == FileOf(input.ds, input.order, input.cut)

\* the offsets of the variants in the order of the resource directory
ResourcesOf(ds, order) ==
    LET placed == Placed(ds, order)
    IN  [k \in 1..Len(ds) |-> BaseOf(placed, IF order = "forward" THEN k ELSE Len(ds) + 1 - k)]

Widths == {0, 1, 9}

\* the variants of Spec: two point sizes, in four shapes
RunVariants ==
    { [ version |-> 512, points |-> pt, height |-> sh[1], first |-> sh[2], last |-> sh[3], widths |-> sh[4] ] :
        pt \in {8, 10},
        sh \in { <<2, 65, 64, <<>> >>, <<2, 65, 65, <<0>> >>, <<2, 65, 65, <<9>> >>, <<1, 66, 67, <<1, 0>> >> } }

RunCuts == {0, 1, 60}

\* the character ranges of SpecAtlas: from -1 to MaxGlyphs records, and the ends of the code space
CharRanges == { <<65, l>> : l \in 63..(64 + MaxGlyphs) } \cup { <<255, 0>>, <<255, 255>> }

AtlasVariants ==
    UNION { { [ version |-> v, points |-> 8, height |-> h, first |-> r[1], last |-> r[2], widths |-> w ] :
                w \in [ 1..Max(0, r[2] - r[1] + 1) -> Widths ] } :
            v \in {256, 512, 768}, h \in 0..MaxHeight, r \in CharRanges }

AtlasCuts == {0, 1, 5, 60}

(***************************************************************************)
(* main                                                                    *)
(***************************************************************************)
NoFont == [threw |-> FALSE]

HasFont(fd) == "header" \in DOMAIN fd

NoAtlas == [size |-> 0]

Line(kind, variant) == [kind |-> kind, variant |-> variant]

FilterIdle ==
    /\ fdata = <<>>
    /\ fwidth = 0
    /\ fheight = 0
    /\ fy = 0
    /\ raw = <<>>
    /\ selected_filter = 0

NoDirectory == [alignment_shift |-> 0, blocks |-> <<>>, cut |-> 0]

LocatorIdle ==
    /\ directory = NoDirectory
    /\ scan_offset = 0
    /\ alignment_shift = 0

RunInit(ds, order, cut) ==
    /\ input = [ds |-> ds, order |-> order, cut |-> cut]
    /\ font_resources = ResourcesOf(ds, order)
    /\ pc = "start"
    /\ i = 1
    /\ font_data = NoFont
    /\ atlas = NoAtlas
    /\ files = <<>>
    /\ log = <<>>
    /\ exit_status = 0
    /\ rejected = {}
    /\ result = [v \in 1..Len(ds) |-> "pending"]
    /\ parsed = [v \in 1..Len(ds) |-> NoFont]
    /\ written = {}
    /\ FilterIdle
    /\ LocatorIdle

Init ==
    \E n \in 0..MaxVariants : \E ds \in [1..n -> RunVariants] :
        \E order \in {"forward", "reverse"} : \E cut \in RunCuts :
            RunInit(ds, order, cut)

\* a variant of one glyph, which SpecAtlas may put behind the variant it varies
PlainVariant == [ version |-> 512, points |-> 10, height |-> 1, first |-> 66, last |-> 66, widths |-> <<1>> ]

\* the varied variant is processed first and lies last in the file, where the cut is
InitAtlas ==
    \E d \in AtlasVariants : \E cut \in AtlasCuts : \E ds \in { <<d>>, <<d, PlainVariant>> } :
        RunInit(ds, "reverse", cut)

\* lines 577-583: no font resource is fatal
Start ==
    /\ pc = "start"
    /\ IF Len(font_resources) = 0
       THEN /\ log' = Append(Append(log, Line("found", 0)), Line("fatal", 0))
            /\ exit_status' = 1
            /\ pc' = "done"
       ELSE /\ log' = Append(log, Line("found", Len(font_resources)))
            /\ exit_status' = exit_status
            /\ pc' = "parse"
    /\ UNCHANGED <<input, font_resources, i, font_data, atlas, files, rejected, result, parsed, written, filterVars, locVars>>

\* lines 586-587, outside the try: an exception of parse_font_data ends the process
ParseVariant ==
    /\ pc = "parse"
    /\ LET fd == parse_font_data(buffer, font_resources[i])
       IN  IF fd.threw
           THEN /\ log' = Append(log, Line("uncaught", i))
                /\ exit_status' = 1
                /\ pc' = "done"
                /\ result' = [result EXCEPT ![i] = "crashed"]
                /\ UNCHANGED <<font_data, parsed>>
           ELSE /\ log' = Append(log, Line("font", i))
                /\ font_data' = fd
                /\ parsed' = [parsed EXCEPT ![i] = fd]
                /\ pc' = "atlas"
                /\ UNCHANGED <<exit_status, result>>
    /\ UNCHANGED <<input, font_resources, i, atlas, files, rejected, written, filterVars, locVars>>

\* create_atlas, lines 467-529: the warning of a variant without a valid glyph, or
\* the canvas and the index; the allocation of the canvas (lines 481, 258) may throw,
\* which line 591 catches
ComposeAtlas ==
    /\ pc = "atlas"
    /\ \/ /\ Len(FilterValid(font_data.char_table)) = 0
          /\ log' = Append(log, Line("warning", i))
          /\ result' = [result EXCEPT ![i] = "empty"]
          /\ pc' = "next"
          /\ UNCHANGED atlas
       \/ /\ Len(FilterValid(font_data.char_table)) # 0
          /\ atlas' = create_atlas(buffer, font_data)
          /\ pc' = "png"
          /\ UNCHANGED <<log, result>>
       \/ /\ Len(FilterValid(font_data.char_table)) # 0
          /\ log' = Append(log, Line("error", i))
          /\ result' = [result EXCEPT ![i] = "failed"]
          /\ pc' = "next"
          /\ UNCHANGED atlas
    /\ UNCHANGED <<input, font_resources, i, font_data, files, exit_status, rejected, parsed, written, filterVars, locVars>>

\* line 534: png.write(png_file) is an async function that nobody awaits. It runs
\* get_buffer and writeFileSync at once; when get_buffer (the encoding) or
\* writeFileSync throws, the promise is rejected and create_atlas goes on
WritePng ==
    /\ pc = "png"
    /\ \/ /\ files' = writeFileSync(files, png_file(font_data), png_content(font_data, atlas))
          /\ written' = written \cup {<<i, "png">>}
          /\ UNCHANGED rejected
       \/ /\ rejected' = rejected \cup {i}
          /\ UNCHANGED <<files, written>>
    /\ pc' = "json"
    /\ UNCHANGED <<input, font_resources, i, font_data, atlas, log, exit_status, result, parsed, filterVars, locVars>>

\* lines 536-548: writeFileSync(json_file) and the two lines of success; an
\* exception of writeFileSync is caught at line 591
WriteJson ==
    /\ pc = "json"
    /\ \/ /\ files' = writeFileSync(files, json_file(font_data), json_content(font_data, atlas))
          /\ log' = Append(Append(log, Line("ok_png", i)), Line("ok_json", i))
          /\ result' = [result EXCEPT ![i] = "ok"]
          /\ written' = written \cup {<<i, "json">>}
       \/ /\ log' = Append(log, Line("error", i))
          /\ result' = [result EXCEPT ![i] = "failed"]
          /\ UNCHANGED <<files, written>>
    /\ pc' = "next"
    /\ UNCHANGED <<input, font_resources, i, font_data, atlas, exit_status, rejected, parsed, filterVars, locVars>>

\* lines 595 and 585: the next variant
NextVariant ==
    /\ pc = "next"
    /\ i < Len(font_resources)
    /\ i' = i + 1
    /\ pc' = "parse"
    /\ font_data' = NoFont
    /\ atlas' = NoAtlas
    /\ UNCHANGED <<input, font_resources, files, log, exit_status, rejected, result, parsed, written, filterVars, locVars>>

\* the end of main: the process exits with status 0, unless a rejected promise
\* is left unhandled, which the runtime reports and, by its settings, turns
\* into status 1
Finish ==
    /\ pc = "next"
    /\ i >= Len(font_resources)
    /\ pc' = "done"
    /\ \E status \in {0, 1} :
          /\ (rejected = {} => status = 0)
          /\ exit_status' = status
    /\ UNCHANGED <<input, font_resources, i, font_data, atlas, files, log, rejected, result, parsed, written, filterVars, locVars>>

NextRun ==
    \/ Start
    \/ ParseVariant
    \/ ComposeAtlas
    \/ WritePng
    \/ WriteJson
    \/ NextVariant
    \/ Finish

Spec == Init /\ [][NextRun]_vars

SpecAtlas == InitAtlas /\ [][NextRun]_vars

(***************************************************************************)
(* The scanline filter of the PNG writer.                                  *)
(***************************************************************************)
\* PNGWriter.bytes_per_pixel
bytes_per_pixel == 4

\* data[k] of the canvas, k from 0
data_at(data, k) == data[k + 1]

\* a store that keeps the magnitude of v instead of wrapping it
to_uint8_abs(v) == Abs(v) % 256

\* what storing the number v into a Buffer keeps: v modulo 256
to_uint8(v) == v % 256

paeth(left, up, up_left) ==
    LET paeth_val == left + up - up_left
        paeth_left == Abs(paeth_val - left)
        paeth_up == Abs(paeth_val - up)
        paeth_up_left == Abs(paeth_val - up_left)
    IN  IF paeth_left <= paeth_up /\ paeth_left <= paeth_up_left THEN left
        ELSE IF paeth_up <= paeth_up_left THEN up
        ELSE up_left

\* the neighbours of byte x of the row at data_ofs, as the filters read them
left_of(data, data_ofs, x) == IF x >= bytes_per_pixel THEN data_at(data, data_ofs + x - bytes_per_pixel) ELSE 0

up_of(data, data_ofs, byte_width, x) == IF data_ofs > 0 THEN data_at(data, data_ofs + x - byte_width) ELSE 0

up_left_of(data, data_ofs, byte_width, x) ==
    IF data_ofs > 0 /\ x >= bytes_per_pixel THEN data_at(data, data_ofs + x - (byte_width + bytes_per_pixel)) ELSE 0

\* the number `value` that filter f computes for byte x, before it is stored
filter_value(f, data, data_ofs, byte_width, x) ==
    CASE f = 0 -> data_at(data, data_ofs + x)
      [] f = 1 -> data_at(data, data_ofs + x) - left_of(data, data_ofs, x)
      [] f = 2 -> data_at(data, data_ofs + x) - up_of(data, data_ofs, byte_width, x)
      [] f = 3 -> data_at(data, data_ofs + x)
                    - ((left_of(data, data_ofs, x) + up_of(data, data_ofs, byte_width, x)) \div 2)
      [] f = 4 -> data_at(data, data_ofs + x)
                    - paeth(left_of(data, data_ofs, x), up_of(data, data_ofs, byte_width, x),
                            up_left_of(data, data_ofs, byte_width, x))

\* FILTERS[f]: the bytes written to raw[raw_ofs .. raw_ofs + byte_width - 1]
FILTERS(f, data, data_ofs, byte_width) ==
    [ q \in 1..byte_width |-> to_uint8(filter_value(f, data, data_ofs, byte_width, q - 1)) ]

RECURSIVE sum_loop(_, _, _, _, _, _)
sum_loop(f, data, data_ofs, byte_width, x, sum) ==
    IF ~(x < byte_width) THEN sum
    ELSE sum_loop(f, data, data_ofs, byte_width, x + 1, sum + Abs(filter_value(f, data, data_ofs, byte_width, x)))

\* FILTER_SUMS[f]
FILTER_SUMS(f, data, data_ofs, byte_width) == sum_loop(f, data, data_ofs, byte_width, 0, 0)

\* Infinity is <<>>, a number m is <<m>>
less_than(sum, min) == min = <<>> \/ sum < min[1]

\* the loop without min = sum: every sum is below Infinity
RECURSIVE select_loop_no_min(_, _, _, _, _, _)
select_loop_no_min(f, data, data_ofs, byte_width, min, selected) ==
    IF ~(f < 5) THEN selected
    ELSE LET sum == FILTER_SUMS(f, data, data_ofs, byte_width)
         IN  IF less_than(sum, min)
             THEN select_loop_no_min(f + 1, data, data_ofs, byte_width, min, f)
             ELSE select_loop_no_min(f + 1, data, data_ofs, byte_width, min, selected)

\* the loop of filter() over the five filters, from filter f
RECURSIVE select_loop(_, _, _, _, _, _)
select_loop(f, data, data_ofs, byte_width, min, selected) ==
    IF ~(f < 5) THEN selected
    ELSE LET sum == FILTER_SUMS(f, data, data_ofs, byte_width)
         IN  IF less_than(sum, min)
             THEN select_loop(f + 1, data, data_ofs, byte_width, <<sum>>, f)
             ELSE select_loop(f + 1, data, data_ofs, byte_width, min, selected)

byte_width_of(width) == width * bytes_per_pixel

\* the pixels of the canvases of SpecFilter
Palette == { <<0, 0, 0, 0>>, <<255, 255, 255, 255>>, <<254, 127, 1, 200>> }

Canvas(pixels) == Concat(pixels)

InitFilter ==
    /\ \E w \in 1..MaxSide : \E h \in 1..MaxSide : \E pixels \in [1..(w * h) -> Palette] :
          /\ fdata = Canvas(pixels)
          /\ fwidth = w
          /\ fheight = h
          /\ raw = [k \in 1..((byte_width_of(w) + 1) * h) |-> 0]
    /\ fy = 0
    /\ selected_filter = 0
    /\ input = [ds |-> <<>>, order |-> "forward", cut |-> 0]
    /\ font_resources = <<>>
    /\ LocatorIdle
    /\ pc = "filter"
    /\ i = 1
    /\ font_data = NoFont
    /\ atlas = NoAtlas
    /\ files = <<>>
    /\ log = <<>>
    /\ exit_status = 0
    /\ rejected = {}
    /\ result = <<>>
    /\ parsed = <<>>
    /\ written = {}

\* one turn of the row loop of filter(), lines 223-240
FilterRow ==
    /\ pc = "filter"
    /\ fy < fheight
    /\ LET byte_width == byte_width_of(fwidth)
           data_ofs == fy * byte_width
           raw_ofs == fy * (byte_width + 1)
           selected == select_loop(0, fdata, data_ofs, byte_width, <<>>, selected_filter)
           row == FILTERS(selected, fdata, data_ofs, byte_width)
       IN  /\ selected_filter' = selected
           /\ raw' = [ k \in 1..Len(raw) |->
                         IF k = raw_ofs + 1 THEN selected
                         ELSE IF k > raw_ofs + 1 /\ k <= raw_ofs + 1 + byte_width THEN row[k - (raw_ofs + 1)]
                         ELSE raw[k] ]
    /\ fy' = fy + 1
    /\ UNCHANGED <<fdata, fwidth, fheight, runVars, locVars>>

\* line 241: filter() returns raw
FilterReturn ==
    /\ pc = "filter"
    /\ fy >= fheight
    /\ pc' = "filtered"
    /\ UNCHANGED <<input, font_resources, i, font_data, atlas, files, log, exit_status, rejected, result, parsed, written, filterVars, locVars>>

NextFilter ==
    \/ FilterRow
    \/ FilterReturn

SpecFilter == InitFilter /\ [][NextFilter]_vars

(***************************************************************************)
(* extract_font_resources: the walk over the resource directory of the     *)
(* container. The directory is the alignment shift, then the blocks of a   *)
(* resource type each (type, count, 4 bytes, count entries of 12 bytes),   *)
(* then the type 0.                                                        *)
(***************************************************************************)
\* the resource type of the fonts
RT_FONT == 32776

\* value << shift of the runtime, for a 16-bit value: the shift count is taken
\* mod 32 and the result is the signed 32-bit number of the low 32 bits
shift_left(value, shift) ==
    LET k == shift % 32
    IN  IF k <= 15 THEN value * (2 ^ k)
        ELSE LET low == value % (2 ^ (32 - k))
                 sign == 2 ^ (31 - k)
             IN  IF low < sign THEN low * (2 ^ k)
                 ELSE ((low - sign) * (2 ^ k)) - 2147483647 - 1

\* the for loop over the entries of the font block, from entry k with
\* font_resources = acc; threw tells that a read left the buffer
RECURSIVE font_block_loop(_, _, _, _, _, _)
font_block_loop(buf, offset, shift, k, resource_count, acc) ==
    IF ~(k < resource_count) THEN [threw |-> FALSE, font_resources |-> acc, offset |-> offset]
    ELSE IF ~CanRead(buf, offset, 2) THEN [threw |-> TRUE, font_resources |-> acc, offset |-> offset]
    ELSE font_block_loop(buf, offset + 12, shift, k + 1, resource_count,
             Append(acc, shift_left(readUInt16LE(buf, offset), shift)))

\* the test of the block type
is_font_block(type_id) == type_id = RT_FONT

Word16(v) == <<ByteLE(v, 0), ByteLE(v, 1)>>

\* the bytes in front of the directory: the offset 64 of the segmented header
\* at 0x3C, and at 0x24 of that header the offset 38 of the resource table
DirectoryHead == [k \in 1..60 |-> 0] \o <<64, 0, 0, 0>> \o [k \in 1..36 |-> 0] \o Word16(38)

\* one entry: the 16-bit offset, then length, flags, id and 4 bytes
EntryBytes(v) == Word16(v) \o <<7, 0, 80, 12, 1, 128, 0, 0, 0, 0>>

BlockBytes(b) ==
    Word16(b.type_id) \o Word16(Len(b.entries)) \o <<0, 0, 0, 0>>
        \o Concat([k \in 1..Len(b.entries) |-> EntryBytes(b.entries[k])])

DirectoryFile(dir) ==
    LET whole == DirectoryHead \o Word16(dir.alignment_shift)
                     \o Concat([k \in 1..Len(dir.blocks) |-> BlockBytes(dir.blocks[k])])
                     \o Word16(0)
    IN  SubSeq(whole, 1, Max(0, Len(whole) - dir.cut))

\* the bytes readFileSync returns for the container
container == DirectoryFile(directory)

Shifts == {4, 16, 32}

EntryValues == {1, 32768}

\* the blocks of SpecLocator: fonts or cursors, of up to MaxEntries entries
DirectoryBlocks ==
    { [type_id |-> t, entries |-> e] :
        t \in {RT_FONT, 32769},
        e \in UNION { [1..m -> EntryValues] : m \in 0..MaxEntries } }

\* the bytes missing at the end: none, the terminator, the terminator and
\* a part of the last entry, all
DirectoryCuts == {0, 2, 13, 1000}

InitLocator ==
    /\ \E shift \in Shifts : \E n \in 0..MaxBlocks : \E blocks \in [1..n -> DirectoryBlocks] :
          \E cut \in DirectoryCuts :
             directory = [alignment_shift |-> shift, blocks |-> blocks, cut |-> cut]
    /\ scan_offset = 0
    /\ alignment_shift = 0
    /\ input = [ds |-> <<>>, order |-> "forward", cut |-> 0]
    /\ font_resources = <<>>
    /\ pc = "locate"
    /\ i = 1
    /\ font_data = NoFont
    /\ atlas = NoAtlas
    /\ files = <<>>
    /\ log = <<>>
    /\ exit_status = 0
    /\ rejected = {}
    /\ result = <<>>
    /\ parsed = <<>>
    /\ written = {}
    /\ FilterIdle

\* lines 407-412: the three reads that find the directory; a RangeError of
\* one of them is caught nowhere and ends the process
ReadDirectory ==
    /\ pc = "locate"
    /\ LET buf == container
       IN  IF ~CanRead(buf, 60, 4) THEN
               /\ pc' = "threw"
               /\ exit_status' = 1
               /\ UNCHANGED <<scan_offset, alignment_shift>>
           ELSE LET ne_offset == readUInt32LE(buf, 60)
                IN  IF ~CanRead(buf, ne_offset + 36, 2) THEN
                        /\ pc' = "threw"
                        /\ exit_status' = 1
                        /\ UNCHANGED <<scan_offset, alignment_shift>>
                    ELSE LET resource_table_offset == readUInt16LE(buf, ne_offset + 36) + ne_offset
                         IN  IF ~CanRead(buf, resource_table_offset, 2) THEN
                                 /\ pc' = "threw"
                                 /\ exit_status' = 1
                                 /\ UNCHANGED <<scan_offset, alignment_shift>>
                             ELSE /\ alignment_shift' = readUInt16LE(buf, resource_table_offset)
                                  /\ scan_offset' = resource_table_offset + 2
                                  /\ pc' = "walk"
                                  /\ UNCHANGED exit_status
    /\ font_resources' = <<>>
    /\ UNCHANGED <<input, i, font_data, atlas, files, log, rejected, result, parsed, written, directory, filterVars>>

\* lines 414-433: one turn of the while loop: the terminator, the font block
\* with its entries, or a block that is skipped
WalkBlock ==
    /\ pc = "walk"
    /\ LET buf == container
       IN  IF ~CanRead(buf, scan_offset, 2) THEN
               /\ pc' = "threw"
               /\ exit_status' = 1
               /\ UNCHANGED <<scan_offset, font_resources>>
           ELSE IF readUInt16LE(buf, scan_offset) = 0 THEN
               /\ pc' = "return"
               /\ UNCHANGED <<scan_offset, font_resources, exit_status>>
           ELSE IF ~CanRead(buf, scan_offset + 2, 2) THEN
               /\ pc' = "threw"
               /\ exit_status' = 1
               /\ UNCHANGED <<scan_offset, font_resources>>
           ELSE LET type_id == readUInt16LE(buf, scan_offset)
                    resource_count == readUInt16LE(buf, scan_offset + 2)
                IN  IF is_font_block(type_id) THEN
                        LET r == font_block_loop(buf, scan_offset + 8, alignment_shift, 0, resource_count, font_resources)
                        IN  /\ font_resources' = r.font_resources
                            /\ scan_offset' = r.offset
                            /\ pc' = IF r.threw THEN "threw" ELSE "return"
                            /\ exit_status' = IF r.threw THEN 1 ELSE exit_status
                    ELSE /\ scan_offset' = scan_offset + 8 + resource_count * 12
                         /\ pc' = "walk"
                         /\ UNCHANGED <<font_resources, exit_status>>
    /\ UNCHANGED <<input, i, font_data, atlas, files, log, rejected, result, parsed, written, directory, alignment_shift, filterVars>>

\* line 435: return font_resources
ReturnResources ==
    /\ pc = "return"
    /\ pc' = "located"
    /\ UNCHANGED <<input, font_resources, i, font_data, atlas, files, log, exit_status, rejected, result, parsed, written, filterVars, locVars>>

NextLocator ==
    \/ ReadDirectory
    \/ WalkBlock
    \/ ReturnResources

SpecLocator == InitLocator /\ [][NextLocator]_vars

(***************************************************************************)
(* The run over several variants: failures and output files.               *)
(***************************************************************************)
Variants == 1..Len(font_resources)

Logged(kind, v) == \E k \in 1..Len(log) : log[k] = Line(kind, v)

\* the processing of variant v failed: an exception, caught or not, or a rejected promise
Failed(v) == result[v] \in {"failed", "crashed"} \/ v \in rejected

\* the processing of variant v has ended
Ended(v) == result[v] # "pending"

\* C1: when the run of a container with at least one variant has ended, every
\* failure of a variant was caught and logged as an error of that variant,
\* every variant was processed, and the exit status is 0.
C1_FailureCaughtRunGoesOn ==
    (pc = "done" /\ Len(font_resources) >= 1) =>
        /\ exit_status = 0
        /\ \A v \in Variants : Ended(v)
        /\ \A v \in Variants : Failed(v) => Logged("error", v)

\* C2: a variant whose processing failed has written neither file, and a
\* variant whose processing has ended has written both files or none.
C2_NoOutputOfFailedVariant ==
    \A v \in Variants :
        /\ Failed(v) => (<<v, "png">> \notin written /\ <<v, "json">> \notin written)
        /\ Ended(v) => (<<v, "png">> \in written <=> <<v, "json">> \in written)

\* C3: when the run has ended, every variant that was processed without
\* failure and has a valid glyph has its PNG and its JSON in the file system,
\* holding the atlas and the index of that variant.
C3_OwnOutputsAtEnd ==
    pc = "done" =>
        \A v \in Variants :
            (result[v] = "ok" /\ v \notin rejected) =>
                LET a == create_atlas(buffer, parsed[v])
                IN  /\ png_file(parsed[v]) \in DOMAIN files
                    /\ json_file(parsed[v]) \in DOMAIN files
                    /\ files[png_file(parsed[v])] = png_content(parsed[v], a)
                    /\ files[json_file(parsed[v])] = json_content(parsed[v], a)

\* every glyph record of a parsed variant has width 0 (also: it has no record)
AllWidthsZero(fd) == \A k \in 1..Len(fd.char_table) : fd.char_table[k].width = 0

\* create_atlas has returned for variant v, or threw
Handled(v) == v < i \/ (v = i /\ pc \in {"next", "done"})

\* C4: a parsed variant whose glyphs all have width 0, once handled, has
\* written no file, rejected no promise, logged the warning and no error; the
\* run goes on to the variant after it, and the run ends with status 0 when
\* the other variants ended without an uncaught exception and without a
\* rejected promise.
C4_EmptyGlyphSetSkipped ==
    \A v \in Variants :
        (HasFont(parsed[v]) /\ AllWidthsZero(parsed[v]) /\ Handled(v)) =>
            /\ result[v] = "empty"
            /\ <<v, "png">> \notin written /\ <<v, "json">> \notin written
            /\ v \notin rejected
            /\ Logged("warning", v) /\ ~Logged("error", v) /\ ~Logged("uncaught", v)
            /\ (pc = "done" /\ v < Len(font_resources)) => result[v + 1] # "pending"
            /\ (pc = "done" /\ rejected = {} /\ (\A u \in Variants : result[u] # "crashed")) => exit_status = 0

\* a run of two variants has ended with status 0: the first had an empty glyph
\* table or only glyphs of width 0, the second wrote its files
C4_Witness ==
    /\ pc = "done"
    /\ exit_status = 0
    /\ Len(font_resources) = 2
    /\ result = <<"empty", "ok">>
    /\ AllWidthsZero(parsed[1])
    /\ Len(parsed[1].char_table) = 0
    /\ {<<2, "png">>, <<2, "json">>} \subseteq written

\* some source position of a valid glyph of the variant lies outside the buffer
BitmapOutside(fd) ==
    \E k \in 1..Len(fd.char_table) :
        LET e == fd.char_table[k]
        IN  /\ e.width > 0
            /\ \E b \in 0..(CeilDiv(e.width, 8) - 1) : \E r \in 0..(fd.header.df_pixel_height - 1) :
                   LET pos == fd.base_offset + e.offset + b * fd.header.df_pixel_height + r
                   IN  ~(pos >= 0 /\ pos < Len(buffer))

\* C5: a variant with a valid glyph whose bitmap is addressed outside the
\* buffer ends as a failure: an error is logged and it writes no file.
C5_OutOfBufferBitmapFails ==
    \A v \in Variants :
        (HasFont(parsed[v]) /\ Handled(v) /\ BitmapOutside(parsed[v])) =>
            /\ result[v] = "failed"
            /\ Logged("error", v)
            /\ <<v, "png">> \notin written /\ <<v, "json">> \notin written

(***************************************************************************)
(* One variant: the glyph table, the layout and the canvas.                *)
(***************************************************************************)
\* C6 as stated: the glyph table of every parsed variant has
\* last_char - first_char + 1 records, the k-th (from 0) of char code first_char + k.
C6_TableLengthAsDeclared ==
    \A v \in Variants :
        HasFont(parsed[v]) =>
            LET h == parsed[v].header
                t == parsed[v].char_table
            IN  /\ Len(t) = h.df_last_char - h.df_first_char + 1
                /\ \A k \in 1..Len(t) : t[k].char_code = h.df_first_char + (k - 1)

\* C6 as amended: the glyph table of every parsed variant has
\* max(0, last_char - first_char + 1) records, the k-th (from 0) of char code
\* first_char + k.
C6_TableLengthClamped ==
    \A v \in Variants :
        HasFont(parsed[v]) =>
            LET h == parsed[v].header
                t == parsed[v].char_table
            IN  /\ Len(t) = Max(0, h.df_last_char - h.df_first_char + 1)
                /\ \A k \in 1..Len(t) : t[k].char_code = h.df_first_char + (k - 1)

\* a header with last_char < first_char - 1 was parsed, and its table is empty
C6_Witness ==
    /\ HasFont(parsed[1])
    /\ parsed[1].header.df_first_char = 255
    /\ parsed[1].header.df_last_char = 0
    /\ parsed[1].char_table = <<>>

\* the glyphs of width > 0 of a variant, in the order of the table
ValidGlyphs(fd) == SelectSeq(fd.char_table, LAMBDA e : e.width > 0)

\* ceil(sqrt(n)) and ceil(n / c), as the least number that is large enough
Columns(n) == CHOOSE c \in 1..n : c * c >= n /\ (c - 1) * (c - 1) < n

RowsOf(n, c) == CHOOSE r \in 1..n : r * c >= n /\ (r - 1) * c < n

MaxValidWidth(fd) ==
    LET g == ValidGlyphs(fd)
    IN  CHOOSE w \in {g[k].width : k \in 1..Len(g)} : \A k \in 1..Len(g) : g[k].width <= w

Side(fd) ==
    LET n == Len(ValidGlyphs(fd))
    IN  Max(Columns(n) * MaxValidWidth(fd), RowsOf(n, Columns(n)) * fd.header.df_pixel_height)

InsideSquare(e, side) == 0 <= e.x /\ e.x + e.width <= side /\ 0 <= e.y /\ e.y + e.height <= side

\* C7: the canvas of a variant with n valid glyphs is square, with side
\* max(columns * max_valid_width, rows * pixel_height) for columns =
\* ceil(sqrt(n)) and rows = ceil(n / columns), the index has one entry per
\* valid glyph, and the box of every entry of the index, in memory and in
\* every JSON file written, lies inside the canvas.
C7_EntriesInsideSquareCanvas ==
    /\ pc \in {"png", "json"} =>
          /\ atlas.size = Side(font_data)
          /\ Cardinality(DOMAIN atlas.atlas_map) = Len(ValidGlyphs(font_data))
          /\ \A key \in DOMAIN atlas.atlas_map : InsideSquare(atlas.atlas_map[key], atlas.size)
          /\ png_content(font_data, atlas).width = atlas.size
          /\ png_content(font_data, atlas).height = atlas.size
    /\ \A f \in DOMAIN files :
          IF f[2] = "json"
          THEN \A key \in DOMAIN files[f].characters : InsideSquare(files[f].characters[key], files[f].atlas_size)
          ELSE files[f].width = files[f].height

\* the index of a variant of three valid glyphs of widths 1 and 9 and of
\* height 2, on a grid of 2 x 2 cells, has been written
C7_Witness ==
    /\ pc = "next"
    /\ result[i] = "ok"
    /\ Len(ValidGlyphs(font_data)) = 3
    /\ {1, 9} \subseteq {ValidGlyphs(font_data)[k].width : k \in 1..3}
    /\ font_data.header.df_pixel_height = 2
    /\ atlas.cols = 2
    /\ atlas.size = 18
    /\ json_file(font_data) \in DOMAIN files

\* bit (r, c) of the row-major bitmap of a glyph, the most significant bit leftmost
BitOf(glyph, r, c) == (glyph.bitmap[r * CeilDiv(glyph.width, 8) + (c \div 8)] \div (2 ^ (7 - (c % 8)))) % 2

\* the four bytes of canvas pixel (px, py)
PixelBytes(px, py, side) == LET p == (py * side + px) * 4 IN {p, p + 1, p + 2, p + 3}

\* C8: on the canvas of a variant, for the i-th valid glyph (from 0), placed
\* at x = (i mod columns) * cell_width, y = (i div columns) * pixel_height,
\* and every row r and column c of it, the pixel (x + c, y + r) lies on the
\* canvas and is (255,255,255,255) when bit (r, c) of the glyph's extracted
\* bitmap is set and (0,0,0,0) when it is not.
C8_CanvasShowsGlyphBits ==
    pc \in {"png", "json"} =>
        LET g == ValidGlyphs(font_data)
            columns == Columns(Len(g))
            cell_width == MaxValidWidth(font_data)
            height == font_data.header.df_pixel_height
        IN  \A n \in 0..(Len(g) - 1) :
                LET x == (n % columns) * cell_width
                    y == (n \div columns) * height
                    glyph == extract_character_bitmap(buffer, font_data.base_offset, font_data.header, g[n + 1])
                IN  \A r \in 0..(height - 1) : \A c \in 0..(g[n + 1].width - 1) :
                        /\ x + c < atlas.size /\ y + r < atlas.size
                        /\ IF BitOf(glyph, r, c) = 1
                           THEN PixelBytes(x + c, y + r, atlas.size) \subseteq atlas.pixel_data
                           ELSE PixelBytes(x + c, y + r, atlas.size) \cap atlas.pixel_data = {}

\* the canvas of a whole file's variant of three valid glyphs, of widths 9, 1
\* and 9 and of height 2, has been drawn, with white and with transparent pixels
C8_Witness ==
    /\ pc = "png"
    /\ input.cut = 0
    /\ Len(ValidGlyphs(font_data)) = 3
    /\ <<ValidGlyphs(font_data)[1].width, ValidGlyphs(font_data)[2].width, ValidGlyphs(font_data)[3].width>> = <<9, 1, 9>>
    /\ font_data.header.df_pixel_height = 2
    /\ atlas.pixel_data # {}
    /\ \E r \in 0..1 : \E c \in 0..8 : PixelBytes(c, 2 + r, atlas.size) \cap atlas.pixel_data = {}
    /\ \E r \in 0..1 : \E c \in 0..8 : PixelBytes(c, 2 + r, atlas.size) \subseteq atlas.pixel_data

(***************************************************************************)
(* The scanline filter: what a decoder reads back, and what a row costs.   *)
(***************************************************************************)
RowWidth == 4 * fwidth

\* the tag of row y of raw, and byte x of the row (both from 0)
TagOf(y) == raw[y * (1 + RowWidth) + 1]

StoredByte(y, x) == raw[y * (1 + RowWidth) + 1 + x + 1]

\* the Paeth predictor of the PNG specification
PaethPredictor(a, b, c) ==
    LET p == a + b - c
        pa == Abs(p - a)
        pb == Abs(p - b)
        pcc == Abs(p - c)
    IN  IF pa <= pb /\ pa <= pcc THEN a ELSE IF pb <= pcc THEN b ELSE c

\* the prediction of a filter type from the left, up and up-left neighbours
Predictor(tag, a, b, c) ==
    CASE tag = 0 -> 0
      [] tag = 1 -> a
      [] tag = 2 -> b
      [] tag = 3 -> (a + b) \div 2
      [] tag = 4 -> PaethPredictor(a, b, c)

\* the neighbours of byte x of row y in the bytes `img` of an image, absent ones are 0
LeftIn(img, y, x) == IF x >= 4 THEN img[y * RowWidth + x - 4 + 1] ELSE 0

UpIn(img, y, x) == IF y >= 1 THEN img[(y - 1) * RowWidth + x + 1] ELSE 0

UpLeftIn(img, y, x) == IF x >= 4 /\ y >= 1 THEN img[(y - 1) * RowWidth + x - 4 + 1] ELSE 0

\* the decoder: the bytes of the first `rows` rows, rebuilt from raw byte by byte
RECURSIVE Unfilter(_, _)
Unfilter(rows, acc) ==
    IF Len(acc) >= rows * RowWidth THEN acc
    ELSE LET y == Len(acc) \div RowWidth
             x == Len(acc) % RowWidth
         IN  Unfilter(rows, Append(acc,
                 (StoredByte(y, x) + Predictor(TagOf(y), LeftIn(acc, y, x), UpIn(acc, y, x), UpLeftIn(acc, y, x))) % 256))

\* C9: the output of filter() has height rows of 1 + 4 * width bytes, every
\* row written begins with a tag in 0..4, and unfiltering the rows written
\* so far by their tags gives back the bytes of these rows of the canvas.
C9_FilterRoundTrip ==
    pc \in {"filter", "filtered"} =>
        /\ Len(raw) = fheight * (1 + 4 * fwidth)
        /\ \A y \in 0..(fy - 1) : TagOf(y) \in 0..4
        /\ Unfilter(fy, <<>>) = SubSeq(fdata, 1, fy * RowWidth)
        /\ pc = "filtered" => fy = fheight

\* filter() has returned the rows of a canvas of 2 x 2 pixels, a row of
\* which is stored with another filter than none and holds a wrapped byte
C9_Witness ==
    /\ pc = "filtered"
    /\ fwidth = 2
    /\ fheight = 2
    /\ \E y \in 0..1 :
          /\ TagOf(y) # 0
          /\ \E x \in 0..(RowWidth - 1) : filter_value(TagOf(y), fdata, y * RowWidth, RowWidth, x) < 0

\* the sum of the bytes filter j stores for row y of the canvas
RECURSIVE StoredSum(_, _, _)
StoredSum(j, y, x) ==
    IF x >= RowWidth THEN 0
    ELSE ((fdata[y * RowWidth + x + 1] - Predictor(j, LeftIn(fdata, y, x), UpIn(fdata, y, x), UpLeftIn(fdata, y, x))) % 256)
         + StoredSum(j, y, x + 1)

\* the sum of the magnitudes of the differences of filter j for row y, not wrapped
RECURSIVE UnwrappedSum(_, _, _)
UnwrappedSum(j, y, x) ==
    IF x >= RowWidth THEN 0
    ELSE Abs(fdata[y * RowWidth + x + 1] - Predictor(j, LeftIn(fdata, y, x), UpIn(fdata, y, x), UpLeftIn(fdata, y, x)))
         + UnwrappedSum(j, y, x + 1)

\* C10 as stated: the tag of every row written is a filter whose stored row
\* has the smallest sum of byte values among the five filters.
C10_SmallestStoredSum ==
    \A y \in 0..(fy - 1) : \A j \in 0..4 : StoredSum(TagOf(y), y, 0) <= StoredSum(j, y, 0)

\* C10 as amended: the tag of every row written is a filter whose sum of
\* the magnitudes of the differences data - prediction, taken before the
\* difference is wrapped into a byte, is the smallest among the five filters,
\* whatever filter the rows before it were given.
C10_SmallestUnwrappedSum ==
    \A y \in 0..(fy - 1) : \A j \in 0..4 : UnwrappedSum(TagOf(y), y, 0) <= UnwrappedSum(j, y, 0)

\* filter() has returned, and another filter would have stored a row of a
\* smaller sum than the row that was stored
C10_Witness ==
    /\ pc = "filtered"
    /\ \E y \in 0..(fheight - 1) : \E j \in 0..4 : StoredSum(j, y, 0) < StoredSum(TagOf(y), y, 0)

(***************************************************************************)
(* The place of the glyph table.                                           *)
(***************************************************************************)
\* the 16-bit little-endian number at byte offset o of the file buf
WordAt(buf, o) == buf[o + 1] + 256 * buf[o + 2]

\* the header length the version field stands for
LengthOfVersion(version) ==
    CASE version = 768 -> 148
      [] version = 512 -> 118
      [] OTHER -> 117

\* C11: the glyph table of every parsed variant is read from base offset +
\* header length on, the header length being 148 for version 0x300, 118 for
\* version 0x200 and 117 for every other version: the record of char code
\* first_char + k is the 4 bytes at that start + 4k, its width the first two
\* and its offset the last two.
C11_TableAfterHeaderOfVersion ==
    LET buf == buffer
    IN  \A v \in Variants :
            HasFont(parsed[v]) =>
                LET h == parsed[v].header
                    t == parsed[v].char_table
                    start == parsed[v].base_offset + LengthOfVersion(WordAt(buf, parsed[v].base_offset))
                IN  /\ h.df_version = WordAt(buf, parsed[v].base_offset)
                    /\ h.header_size = LengthOfVersion(h.df_version)
                    /\ \A k \in 0..(Len(t) - 1) :
                           /\ t[k + 1].char_code = h.df_first_char + k
                           /\ t[k + 1].width = WordAt(buf, start + 4 * k)
                           /\ t[k + 1].offset = WordAt(buf, start + 4 * k + 2)

\* a variant of version 0x300 with two records of different widths has been
\* parsed, after a variant of version 0x200
C11_Witness ==
    /\ Len(font_resources) = 2
    /\ HasFont(parsed[1])
    /\ HasFont(parsed[2])
    /\ parsed[1].header.df_version = 768
    /\ parsed[2].header.df_version = 512
    /\ Len(parsed[1].char_table) >= 2
    /\ parsed[1].char_table[1].width # parsed[1].char_table[2].width

(***************************************************************************)
(* The walk over the resource directory.                                   *)
(***************************************************************************)
\* the number of the first font block of a directory, 0 when it has none
FirstFontBlock(blocks) ==
    IF \E k \in 1..Len(blocks) : blocks[k].type_id = RT_FONT
    THEN CHOOSE k \in 1..Len(blocks) :
             /\ blocks[k].type_id = RT_FONT
             /\ \A j \in 1..(k - 1) : blocks[j].type_id # RT_FONT
    ELSE 0

\* r = v * 2^s, by halving r
RECURSIVE TimesPowerOfTwo(_, _, _)
TimesPowerOfTwo(r, v, s) ==
    IF s = 0 THEN r = v
    ELSE r % 2 = 0 /\ TimesPowerOfTwo(r \div 2, v, s - 1)

\* C12: when extract_font_resources has returned, its result is the entries of
\* the first font block before the terminator, in the order of the directory,
\* each the 16-bit value of the entry multiplied by 2^alignment_shift, whatever
\* blocks lie before and after it; it is the empty list when the terminator
\* comes first.
C12_FirstFontBlockTimesAlignment ==
    pc = "located" =>
        LET f == FirstFontBlock(directory.blocks)
        IN  IF f = 0 THEN font_resources = <<>>
            ELSE LET entries == directory.blocks[f].entries
                 IN  /\ Len(font_resources) = Len(entries)
                     /\ \A k \in 1..Len(entries) :
                            TimesPowerOfTwo(font_resources[k], entries[k], directory.alignment_shift)

====
